---- MODULE Spec2Model ----
(***************************************************************************)
(* A model of zcubes.c (Booker & Sutherland's search for sums of three     *)
(* cubes): the per-d dispatcher (procd, procdcoprime, procdbigprime,       *)
(* prockd), the d-enumerator (enumd, enumcd), the phase driver             *)
(* (process_primes, process_subprimes) and the supervisor (main).          *)
(*                                                                         *)
(* The module holds several specifications over one set of variables:     *)
(*   Spec      the supervisor, the prime pipe and the workers' progress     *)
(*   SpecFair  Spec with each process scheduled fairly, for termination     *)
(*   SpecDisp  one call of procd / procdcoprime on bounded arguments       *)
(*   SpecEnum  one worker in process_primes or process_subprimes, with the *)
(*             dispatcher calls its enumerator makes for each prime        *)
(* Each specification moves its own variables and leaves the others at     *)
(* their idle values.                                                      *)
(*                                                                         *)
(* Numbers are scaled down: TLC's integers are 32 bits wide, so zmax and   *)
(* dmax are small and the shift of the fudge factor (62 in the source) is  *)
(* FudgeShift.                                                             *)
(***************************************************************************)
EXTENDS Integers, Sequences, FiniteSets, TLC

VARIABLES
    argv,       \* the command line as main parses it
    sup,        \* the supervisor (main): its position, parsed globals, exit code, banners
    proc,       \* pids[0..cores]: the state of each child process (workers, then the feeder)
    pipe,       \* the prime pipe: range, ring buffer, primes fed, workers that closed
    wk,         \* each worker's position in process_primes / process_subprimes
    nfail,      \* children that died of a cause outside the modelled code
    pd_args,    \* dispatcher: the globals and arguments of the call [k, zmax, ki, a, ca]
    pd_call,    \* dispatcher: what the call did [fn, accepted, d, b, n, zr]
    en          \* one worker's run of process_primes / process_subprimes with its enumerator

runVars == <<argv, sup, proc, pipe, wk, nfail>>
dispVars == <<pd_args, pd_call>>
enumVars == <<en>>
vars == <<argv, sup, proc, pipe, wk, nfail, pd_args, pd_call, en>>

----------------------------------------------------------------------------
(* Bounds of the model *)

\* zmax = zmax128 + (zmax128>>62) + 1 in the source; the shift is scaled to the
\* model's zmax so that the term zmax128>>62 is not always 0
FudgeShift == 6
\* largest k-coprime part a offered to the dispatcher in SpecDisp
MaxA == 40
\* the width of a machine word (64 in the source): primes_read_pipe returns
\* 2^WordBits - 1 at the end of the pipe and DMAX is below 2^(WordBits-1)
WordBits == 10
\* the largest number of workers (cores) a command line asks for
MaxCores == 2
\* the slots of the pipe's ring buffer
RingSize == 2
\* children that may die of a cause outside the modelled code (a signal, a failed
\* softassert, the sieve) in one run
MaxFail == 1
\* how far past pmin report_start may place the resume point start_pmin
MaxResume == 1
\* the entries of the enumerator's batch of deferred inversions (256 in the source)
IBATCH == 2
\* the primes that other workers may take from the pipe between two reads of the
\* worker that SpecEnum follows
MaxGap == 1

----------------------------------------------------------------------------
(* Arithmetic helpers *)

Min(a, b) == IF a <= b THEN a ELSE b
Max(a, b) == IF a >= b THEN a ELSE b

RECURSIVE Pow(_, _)
Pow(b, e) == IF e = 0 THEN 1 ELSE b * Pow(b, e - 1)

Divides(a, b) == b % a = 0
IsPrime(p) == p >= 2 /\ \A q \in 2..(p - 1) : q * q > p \/ p % q # 0

RECURSIVE Gcd(_, _)
Gcd(a, b) == IF b = 0 THEN a ELSE Gcd(b, a % b)

\* the cube roots of k modulo d, 0 <= z < d (cbrts.h computes and caches them)
CubeRootSet(k, d) == { z \in 0..(d - 1) : (((z * z) % d) * z) % d = k % d }

\* a set of numbers as the ascending sequence of its elements
RECURSIVE SortedSeq(_)
SortedSeq(S) ==
    IF S = {} THEN << >>
    ELSE LET m == CHOOSE x \in S : \A y \in S : x <= y
         IN  <<m>> \o SortedSeq(S \ {m})

SeqSet(s) == { s[i] : i \in 1..Len(s) }

----------------------------------------------------------------------------
(* Tables of kdata.h and zcheck.h that the dispatcher reads *)

\* zcheck.h: progressions of at most ZSHORT terms, or of at most ZFEW terms over
\* all the roots, are checked directly
ZSHORT == 4
ZFEW == 16

\* kdata.h goodk: k is a positive integer <= 1000 congruent to 3 or 6 mod 9
MAXK == 1000
goodk(k) == k >= 1 /\ k <= MAXK /\ k % 9 \in {3, 6}

\* kdata.h: the divisors d' of k with v_q(d') in {0, v_q(k)} for every prime q | k,
\* ascending; kdtab[0].d = 1
kdset(k) == { e \in 1..k : k % e = 0 /\ Gcd(e, k \div e) = 1 }
kdtab(k) == SortedSeq(kdset(k))
kdcnt(k) == Len(kdtab(k)) - 1
kdtab_d(k, ki) == kdtab(k)[ki + 1]
kdtab_n(k, ki) == Cardinality(CubeRootSet(k, kdtab_d(k, ki)))
\* kdmax[ki] = dmax / kdtab[ki].d, and 0 past the end of the table
kdmax(k, dmax, ki) == IF ki <= kdcnt(k) THEN dmax \div kdtab_d(k, ki) ELSE 0

\* kdata.h: the modulus of the cubic-reciprocity constraints on z: 81 for k = 3,
\* else 9, doubled when k is even
k27(k) == IF k = 3 THEN 81 ELSE 9
k27ftab_m(k) == IF k % 2 = 0 THEN 2 * k27(k) ELSE k27(k)
\* km[0..3]: km1, km2 = 2*km1 for odd km1, and 7 times these when k = +/-2 mod 7
mod7sq4(k) == (k * k) % 7 = 4
km(k, mi) ==
    LET km1 == k27ftab_m(k)
        b01 == IF mi % 2 = 0 THEN km1 ELSE (IF km1 % 2 = 1 THEN 2 * km1 ELSE 0)
    IN  IF mi < 2 THEN b01 ELSE (IF mod7sq4(k) THEN 7 * b01 ELSE 0)

\* main: zmaxld = (long double)(zmax128 + (zmax128>>62) + 1)
zmaxld(zmax) == zmax + (zmax \div Pow(2, FudgeShift)) + 1

\* cstd.h fastceilboundl applied to the quotient num/den: its ceiling
fastceilboundl(num, den) == (num + den - 1) \div den

----------------------------------------------------------------------------
(* The per-d dispatcher *)

\* the test of procd and procdcoprime for checking the progressions directly
zshort_noFew(n, ca) == n <= ZSHORT
zshort(n, ca) == n <= ZSHORT \/ n * ca <= ZFEW

\* the test (uint128_t)a*b > zmax128 that picks zrcheckone
beyond_twice(ab, zmax) == ab > 2 * zmax
beyond(ab, zmax) == ab > zmax

\* procd (ki, a, za, ca): the modulus, the length and the checker calls made;
\* accept is report_d's answer and onez is onezmod7(d,si)'s
procd_b(k, d, onez) ==
    LET m  == k27ftab_m(k)
        b7 == IF onez THEN 7 ELSE 1
        b2 == 1 + ((m % 2) * (d % 2))
    IN  m * b2 * b7

procd(k, zmax, ki, a, ca, accept, onez) ==
    LET d == a * kdtab_d(k, ki)
        b == procd_b(k, d, onez)
        n == fastceilboundl(zmaxld(zmax), a * b)
    IN  [ fn |-> "procd", accepted |-> accept, d |-> d, ca |-> ca,
          b |-> IF accept THEN b ELSE 0,
          n |-> IF accept THEN n ELSE 0,
          zr |-> IF ~accept THEN << >>
                 ELSE IF zshort(n, ca)
                      THEN IF beyond(a * b, zmax)
                           THEN << [fn |-> "zrcheckone", a |-> a, b |-> b, n |-> 1] >>
                           ELSE << [fn |-> "zrcheckafew", a |-> a, b |-> b, n |-> n] >>
                      ELSE << [fn |-> "zrchecklift", a |-> a, b |-> 0, n |-> 0] >> ]

\* procdcoprime (d, z, c)
procdcoprime(k, zmax, d, c, accept, onez) ==
    LET mi == ((k27ftab_m(k) % 2) * (d % 2)) + 2 * (IF onez THEN 1 ELSE 0)
        b  == km(k, mi)
        l  == fastceilboundl(zmaxld(zmax), d * b)
    IN  [ fn |-> "procdcoprime", accepted |-> accept, d |-> d, ca |-> c,
          b |-> IF accept THEN b ELSE 0,
          n |-> IF accept THEN l ELSE 0,
          zr |-> IF ~accept THEN << >>
                 ELSE IF zshort(l, c)
                      THEN IF beyond(d * b, zmax)
                           THEN << [fn |-> "zrcheckone", a |-> d, b |-> b, n |-> 1] >>
                           ELSE << [fn |-> "zrcheckafew", a |-> d, b |-> b, n |-> l] >>
                      ELSE << [fn |-> "zrchecklift", a |-> d, b |-> 0, n |-> 0] >> ]

\* onezmod7(d,si) can hold only when k = +/-2 mod 7
onezChoices(k) == IF mod7sq4(k) THEN BOOLEAN ELSE {FALSE}

NoCall == [ fn |-> "none", accepted |-> FALSE, d |-> 0, ca |-> 0, b |-> 0, n |-> 0, zr |-> << >> ]

----------------------------------------------------------------------------
(* The d-enumerator: prockd, enumcd and enumd as functions from their          *)
(* arguments to the sequence of dispatcher calls they make.  c is the record   *)
(* of the globals that precompute leaves behind: k, dmax, zmax, the thresholds *)
(* and the tables of cbrts.h.                                                  *)

\* cbrts.h cptab[1..cpcnt]: the primes p <= cpmax not dividing k modulo which k has
\* a cube root, ascending; cptab[0] is below every prime
cptab_of(k, cpmax) ==
    SortedSeq({ p \in 2..cpmax : IsPrime(p) /\ k % p # 0 /\ CubeRootSet(k, p) # {} })
cpcnt(c) == Len(c.cptab)
cptab(c, pi) == IF pi = 0 THEN 0 ELSE c.cptab[pi]

\* the largest prime divisor of a >= 2
LargestPrime(a) ==
    CHOOSE q \in 2..a : /\ IsPrime(q) /\ a % q = 0
                        /\ \A r \in (q + 1)..a : ~(IsPrime(r) /\ a % r = 0)

\* a is an admissible k-coprime part: coprime to k, with a cube root of k modulo a
Admissible(k, a) == a >= 2 /\ Gcd(a, k) = 1 /\ CubeRootSet(k, a) # {}

\* cbrts.h cdtab / sdtab: the admissible cofactors up to a bound, ascending, each
\* with its largest prime p and its cube roots of k; entry 0 has d = 0
cofactors(k, bound) ==
    LET S == SortedSeq({ a \in 2..bound : Admissible(k, a) })
    IN  [ i \in 1..Len(S) |->
            [ d |-> S[i], p |-> LargestPrime(S[i]), roots |-> SortedSeq(CubeRootSet(k, S[i])) ] ]

\* cbrts.h: d >= cdmin has every cofactor up to dmax/d in cdtab, d >= sdmin in sdtab
cdmin(c) == 1 + c.dmax \div (c.cdmax + 1)
sdmin(c) == 1 + c.dmax \div (c.sdmax + 1)

\* cbrts.h pimaxp (p,d,dmax): the largest pi with cptab[pi] <= p and d*cptab[pi] <= dmax,
\* or 0
pimaxp(c, p, d) ==
    LET S == { pi \in 1..cpcnt(c) : c.cptab[pi] <= p /\ d * c.cptab[pi] <= c.dmax }
    IN  IF S = {} THEN 0 ELSE CHOOSE pi \in S : \A pj \in S : pj <= pi

\* cbrts.h cdentry (p,d,dmax): the last entry x of cdtab with d*x->d <= dmax and
\* x->p <= p, or 0
cdentry(c, p, d) ==
    LET S == { x \in 1..Len(c.cdtab) : d * c.cdtab[x].d <= c.dmax /\ c.cdtab[x].p <= p }
    IN  IF S = {} THEN 0 ELSE CHOOSE x \in S : \A y \in S : y <= x

\* cbrts.h cached_cuberoots_modq / cuberoots_modq / cuberoots_modp: the cube roots of
\* k modulo q, ascending
cuberoots_modq(k, q) == SortedSeq(CubeRootSet(k, q))

\* m64.h m64_inv_array: the inverse of a modulo d, in 0..d-1
m64_inv(a, d) == CHOOSE x \in 0..(d - 1) : (a * x) % d = 1 % d

\* b32.h fcrt64 (u,nza,zd,ab) with u = -1 mod a, u = 0 mod d and nza = a - za:
\* zd + u*(zd + nza) mod ab, which is zd mod d and za mod a
fcrt64(u, nza, zd, ab) == (zd + u * (zd + nza)) % ab

\* b32.h b32_crt64 (z1,m1,z2,m2,m1inv,..), m1inv the inverse of m1 modulo m2:
\* z1 + m1*((z2 - z1)*m1inv mod m2)
b32_crt64(z1, m1, z2, m2, m1inv) == z1 + m1 * ((((z2 + m1 * m2 - z1) % m2) * m1inv) % m2)

\* prockd (d,zd,n): procdcoprime, then procd (i,..) for i = 1,2,.. while d <= kdmax[i]
RECURSIVE prockd_from(_, _, _, _)
prockd_from(c, d, zd, i) ==
    IF d <= kdmax(c.k, c.dmax, i)
    THEN << [ fn |-> "procd", ki |-> i, a |-> d, zd |-> zd ] >> \o prockd_from(c, d, zd, i + 1)
    ELSE << >>
prockd(c, d, zd) ==
    << [ fn |-> "procdcoprime", ki |-> 0, a |-> d, zd |-> zd ] >> \o prockd_from(c, d, zd, 1)

\* lines 263 and 215: u = a*(a^-1 mod d) - 1
crt_u(a, d) == a * m64_inv(a, d) - 1
\* lines 266 and 217: nza = a - (a root modulo a)
nza_plain(a, z) == z
nza(a, z) == a - z

\* lines 265-266 and 216-218: the roots modulo ab, for each root modulo a and each of zd
lift(a, d, qz, zd) ==
    [ t \in 1..(Len(qz) * Len(zd)) |->
        fcrt64(crt_u(a, d), nza(a, qz[((t - 1) \div Len(zd)) + 1]), zd[((t - 1) % Len(zd)) + 1], a * d) ]

\* line 232 (and 463): the roots modulo d*sd, for each of zd and each root modulo sd
slift(d, zd, sd, sz) ==
    [ t \in 1..(Len(zd) * Len(sz)) |->
        b32_crt64(zd[((t - 1) \div Len(sz)) + 1], d, sz[((t - 1) % Len(sz)) + 1], sd, m64_inv(d % sd, sd)) ]

\* lines 214 and 262: the entries of a batch of m that are processed
batch_items_short(m) == 1..(m - 1)
batch_items(m) == 1..m

\* line 238: for ( x-- ; x->p >= p ; x-- )
cd_prev(c, x, p) ==
    LET S == { y \in 1..(x - 1) : c.cdtab[y].p < p }
    IN  IF S = {} THEN 0 ELSE CHOOSE y \in S : \A w \in S : w <= y

\* enumcd, lines 213-221: the batch z[0..m) of entries of cdtab is processed
RECURSIVE enumcd_batch(_, _, _, _, _)
enumcd_batch(c, d, zd, z, i) ==
    IF i \notin batch_items(Len(z)) THEN << >>
    ELSE LET x == c.cdtab[z[i]]
         IN  prockd(c, x.d * d, lift(x.d, d, x.roots, zd)) \o enumcd_batch(c, d, zd, z, i + 1)

\* enumcd, lines 209-239: the loop from entry x down, z the batch under way
RECURSIVE enumcd_loop(_, _, _, _, _, _)
enumcd_loop(c, d, p, zd, x, z) ==
    IF x = 0 \/ Len(z) = IBATCH
    THEN IF z = << >> THEN << >>
         ELSE enumcd_batch(c, d, zd, z, 1)
              \o (IF x = 0 THEN << >> ELSE enumcd_loop(c, d, p, zd, x, << >>))
    ELSE IF c.cdtab[x].d <= c.sdmax
         THEN prockd(c, d * c.cdtab[x].d, slift(d, zd, c.cdtab[x].d, c.cdtab[x].roots))
              \o enumcd_loop(c, d, p, zd, cd_prev(c, x, p), z)
         ELSE enumcd_loop(c, d, p, zd, cd_prev(c, x, p), Append(z, x))

\* enumcd (d,p,zd,n,r)
enumcd(c, d, p, zd) ==
    LET x == cdentry(c, p - 1, d)
    IN  IF x = 0 THEN << >> ELSE enumcd_loop(c, d, p, zd, x, << >>)

RECURSIVE enumd(_, _, _, _)
RECURSIVE enumd_batch(_, _, _, _, _)
RECURSIVE enumd_loop(_, _, _, _, _, _, _)

\* enumd, lines 261-270: the batch qq[0..m), qpi, qe is processed; each entry is
\* emitted through prockd and then extended by enumcd or enumd
enumd_batch(c, d, zd, b, i) ==
    IF i \notin batch_items(Len(b)) THEN << >>
    ELSE LET a  == b[i].q
             ab == a * d
             r  == lift(a, d, cuberoots_modq(c.k, Pow(cptab(c, b[i].pi), b[i].e)), zd)
         IN  prockd(c, ab, r)
             \o (IF ab >= cdmin(c) THEN enumcd(c, ab, cptab(c, b[i].pi), r)
                 ELSE enumd(c, ab, cptab(c, b[i].pi), r))
             \o enumd_batch(c, d, zd, b, i + 1)

\* enumd, lines 258-280: the loop at (pi,q,e), b the batch under way
enumd_loop_late(c, d, zd, pi, q, e, b) ==
    IF pi = 0 \/ Len(b) = IBATCH
    THEN IF b = << >> THEN << >>
         ELSE enumd_batch(c, d, zd, b, 1)
              \o (IF pi = 0 THEN << >> ELSE enumd_loop(c, d, zd, pi, q, e, << >>))
    ELSE LET b2 == Append(b, [ q |-> q, pi |-> pi, e |-> e ])
             q2 == q * cptab(c, pi)
         IN  IF d * q > c.dmax
             THEN enumd_loop(c, d, zd, pi - 1, cptab(c, pi - 1), 1, b2)
             ELSE enumd_loop(c, d, zd, pi, q2, e + 1, b2)
enumd_loop(c, d, zd, pi, q, e, b) ==
    IF pi = 0 \/ Len(b) = IBATCH
    THEN IF b = << >> THEN << >>
         ELSE enumd_batch(c, d, zd, b, 1)
              \o (IF pi = 0 THEN << >> ELSE enumd_loop(c, d, zd, pi, q, e, << >>))
    ELSE LET b2 == Append(b, [ q |-> q, pi |-> pi, e |-> e ])
             q2 == q * cptab(c, pi)
         IN  IF d * q2 > c.dmax
             THEN enumd_loop(c, d, zd, pi - 1, cptab(c, pi - 1), 1, b2)
             ELSE enumd_loop(c, d, zd, pi, q2, e + 1, b2)

\* enumd (d,p,zd,n,r)
enumd(c, d, p, zd) ==
    IF d >= cdmin(c) THEN enumcd(c, d, p, zd)
    ELSE LET pi == pimaxp(c, p - 1, d)
         IN  IF pi = 0 THEN << >> ELSE enumd_loop(c, d, zd, pi, cptab(c, pi), 1, << >>)

\* precompute: the globals and the tables a run starts from
precompute(k, dmax, zmax, cpmax, cdmax, sdmax, start, pmax) ==
    [ k |-> k, dmax |-> dmax, zmax |-> zmax, cpmax |-> cpmax, cdmax |-> cdmax, sdmax |-> sdmax,
      start |-> start, pmax |-> pmax,
      cptab |-> cptab_of(k, cpmax), cdtab |-> cofactors(k, cdmax), sdtab |-> cofactors(k, sdmax) ]

----------------------------------------------------------------------------
(* The supervisor: main's argument handling (lines 532-579)                    *)

\* cstd.h / cbrts.h limits, scaled to the model's word
UINT64_MAX == Pow(2, WordBits) - 1
DMAX == Pow(2, WordBits - 1) - 1
ZMAXBITS == WordBits + 4
RECURSIVE ui128_len(_)
ui128_len(z) == IF z = 0 THEN 0 ELSE 1 + ui128_len(z \div 2)

primes_next_prime(n) == CHOOSE p \in (n + 1)..(2 * n + 2) : IsPrime(p) /\ \A q \in (n + 1)..(p - 1) : ~IsPrime(q)
has_cuberoots_modp(k, p) == CubeRootSet(k, p) # {}

\* x <= sqrt(dmax), for integers
le_sqrt(x, dmax) == x * x <= dmax

\* line 559: without an x in pmin, p0 is pinned only for several cores
p0rule_anycores(cores, pmin, pmax, dmax) == pmin = pmax /\ le_sqrt(pmax, dmax)
p0rule(cores, pmin, pmax, dmax) == cores > 1 /\ pmin = pmax /\ le_sqrt(pmax, dmax)

\* line 577: pmax < pmin || dmax < p0*pmax || zmax128 < dmax
bounds_bad_noprod(p0, pmin, pmax, dmax, zmax) == pmax < pmin \/ zmax < dmax
bounds_bad(p0, pmin, pmax, dmax, zmax) == pmax < pmin \/ dmax < p0 * pmax \/ zmax < dmax

\* line 554: with pmin = p0xq, pmax = p0xr needs r <= p0
xpmax_bad_never(p0, pmax) == FALSE
xpmax_bad(p0, pmax) == pmax > p0

\* line 563: p0 > 1 && !(k%p0)
p0_divides_k_never(k, p0) == FALSE
p0_divides_k(k, p0) == p0 > 1 /\ k % p0 = 0

\* lines 561-562: what main only warns about
p0_warned(k, p0) ==
    p0 > 1 /\ (primes_next_prime(p0 - 1) # p0 \/ (p0 % 3 = 1 /\ ~has_cuberoots_modp(k, p0)))

\* line 578: zminld = 3.847322101863072639L*dmax > zmaxld
zmin_bad(dmax, zmax) == 3847 * dmax > 1000 * zmaxld(zmax)

MainOut(code, msg, cores, p0, pmin, pmax) ==
    [ exit |-> code, err |-> msg, cores |-> cores, p0 |-> p0, pmin |-> pmin, pmax |-> pmax ]

\* lines 548-564: p0, pmin and pmax from argv[3] and argv[4]
main_p0(av, cores) ==
    IF av.x THEN av.p0
    ELSE IF p0rule(cores, av.pmin, av.pmax, av.dmax) THEN av.pmin ELSE 1
main_pmin(av, cores) ==
    LET m == IF ~av.x /\ p0rule(cores, av.pmin, av.pmax, av.dmax) THEN 2 ELSE av.pmin
    IN  IF m < 2 THEN 2 ELSE m
main_cores(av) == IF av.n = 0 THEN av.nprocs ELSE av.n

\* lines 532-579, in the order of the code: the exit it takes, or none
main_args(av) ==
    LET cores == main_cores(av)
        p0    == main_p0(av, cores)
        pmin  == main_pmin(av, cores)
        pmax  == av.pmax
        stop(code, msg) == MainOut(code, msg, cores, 0, 0, 0)
    IN  IF ~av.argc7 THEN MainOut("0", "usage", 0, 0, 0, 0)
        ELSE IF av.n < 0 THEN MainOut("abort", "assert cores >= 0", 0, 0, 0, 0)
        ELSE IF ~goodk(av.k) THEN stop("-1", "k")
        ELSE IF av.dmax > DMAX THEN stop("-1", "dmax > DMAX")
        ELSE IF av.x /\ av.p0b # av.p0 THEN stop("-1", "pmax not valid for pmin")
        ELSE IF av.x /\ av.p0 < 2 THEN stop("-1", "p0 must be at least 2")
        ELSE IF av.x /\ xpmax_bad(av.p0, av.pmax) THEN stop("-1", "pmax > p0")
        ELSE IF av.x /\ av.opts # 0 THEN stop("-1", "options not permitted")
        ELSE IF p0_divides_k(av.k, p0) THEN stop("-1", "p0 divides k")
        ELSE IF pmax < pmin THEN stop("-1", "pmin > pmax")
        ELSE IF ui128_len(av.zmax) > ZMAXBITS THEN stop("-1", "zmax too large")
        ELSE IF ~le_sqrt(p0, av.dmax) THEN stop("-1", "p0 > sqrt(dmax)")
        ELSE IF bounds_bad(p0, pmin, pmax, av.dmax, av.zmax) THEN stop("-1", "pmin <= pmax <= dmax <= zmax")
        ELSE IF zmin_bad(av.dmax, av.zmax) /\ av.opts = 0 THEN stop("-1", "zmin")
        ELSE MainOut("none", "none", cores, p0, pmin, pmax)


----------------------------------------------------------------------------
(* The prime pipe of primes.h, from its contract: the ordered primes of        *)
(* [start,end] through a ring buffer; a read takes the oldest prime not yet    *)
(* read, or returns 2^64-1 once the feeder is done and the ring is empty.      *)

PrimesIn(lo, hi) == SortedSeq({ q \in lo..hi : IsPrime(q) })

NoPipe == [ created |-> FALSE, start |-> 0, end |-> 0, nworkers |-> 0,
            buf |-> << >>, fed |-> 0, feedDone |-> FALSE, closed |-> {} ]

primes_create_pipe(start, end, nworkers) ==
    [ created |-> TRUE, start |-> start, end |-> end, nworkers |-> nworkers,
      buf |-> << >>, fed |-> 0, feedDone |-> FALSE, closed |-> {} ]

\* primes_read_pipe: whether a read returns now, what it returns, and the pipe after it
read_ready(pp) == pp.buf # << >> \/ pp.feedDone
read_value_first(pp) == IF pp.buf # << >> THEN Head(pp.buf) ELSE UINT64_MAX
read_value_stale(pp) ==
    IF pp.buf # << >> THEN pp.buf[Len(pp.buf)] ELSE UINT64_MAX
read_value(pp) == read_value_first(pp)
read_pipe_keep(pp) == pp
read_pipe(pp) == IF pp.buf # << >> THEN [pp EXCEPT !.buf = Tail(pp.buf)] ELSE pp

\* primes_feed_pipe: the primes still to feed; it blocks while the ring is full
feed_left(pp) == pp.fed < Len(PrimesIn(pp.start, pp.end))
feed_room(pp) == Len(pp.buf) < RingSize
feed_pipe(pp) ==
    [pp EXCEPT !.buf = Append(pp.buf, PrimesIn(pp.start, pp.end)[pp.fed + 1]), !.fed = pp.fed + 1]

\* precompute_cuberoots: cpmax, the largest cached prime bound, is at least sqrt(dmax)
cpmax_of(dmax) == CHOOSE c \in 1..dmax : c * c >= dmax /\ (c - 1) * (c - 1) < dmax

----------------------------------------------------------------------------
(* Spec: the supervisor, the feeder and the workers                            *)

Children == 0..MaxCores
Workers(cores) == 0..(cores - 1)

NoWorker == [ pc |-> "none", path |-> "none", p |-> 0, pmax |-> 0, got |-> << >>, cov |-> {} ]
SupStart ==
    [ pc |-> "main", exit |-> "none", err |-> "none", banner |-> "none", cores |-> 0,
      p0 |-> 0, pmin |-> 0, pmax |-> 0, start |-> 0, precomputed |-> FALSE,
      i |-> 0, reaped_fail |-> FALSE, killed |-> FALSE,
      ckpt |-> "none", report_end |-> FALSE ]

RunIdle ==
    /\ argv = [ argc7 |-> FALSE, n |-> 0, nprocs |-> 1, k |-> 0, x |-> FALSE, p0 |-> 0, p0b |-> 0,
                pmin |-> 0, pmax |-> 0, dmax |-> 0, zmax |-> 0, opts |-> 0 ]
    /\ sup = [SupStart EXCEPT !.pc = "idle"]
    /\ proc = [ c \in Children |-> "none" ]
    /\ pipe = NoPipe
    /\ wk = [ w \in 0..(MaxCores - 1) |-> NoWorker ]
    /\ nfail = 0

\* the worker of SpecEnum before it starts
NoEnum ==
    [ cfg |-> precompute(0, 0, 0, 0, 0, 0, 0, 0), p0 |-> 0, pc |-> "idle", p |-> 0, pi |-> 0, pimax |-> 0,
      l |-> 0, lpmax |-> 0, l7 |-> 0, lpmax7 |-> 0,
      cur |-> 0, skip |-> FALSE, log |-> << >>, phases |-> << >>,
      refused |-> {}, late |-> FALSE ]
EnumIdle == en = NoEnum

DispIdle == pd_args = [ k |-> 0, zmax |-> 0, ki |-> 0, a |-> 0, ca |-> 0 ] /\ pd_call = NoCall

\* the command lines of the model: without an x (pmin pmax) and with one (p0xq p0xr),
\* on a machine where get_nprocs is 1 (n = 0 then gives one worker)
ArgK == {3, 4}
ArgPlain == { <<0, 1>>, <<0, 3>>, <<3, 7>>, <<2, 2>>, <<3, 3>>, <<5, 5>>, <<5, 3>>, <<7, 7>>, <<59, 61>> }
ArgX == { <<5, 5, 7, 11>>, <<5, 5, 2, 5>>, <<5, 5, 5, 5>>, <<5, 7, 2, 5>>, <<7, 7, 2, 7>>,
          <<1, 1, 1, 1>>, <<4, 4, 2, 3>>, <<5, 5, 5, 3>> }
ArgZ == { <<30, 20, 0>>, <<30, 100, 0>>, <<30, 100, 1>>, <<60, 300, 0>> }

ArgSet ==
    { [ argc7 |-> FALSE, n |-> 0, nprocs |-> 1, k |-> 0, x |-> FALSE, p0 |-> 0, p0b |-> 0,
        pmin |-> 0, pmax |-> 0, dmax |-> 0, zmax |-> 0, opts |-> 0 ] }
    \cup
    { [ argc7 |-> TRUE, n |-> n, nprocs |-> np, k |-> k, x |-> FALSE, p0 |-> 0, p0b |-> 0,
        pmin |-> r[1], pmax |-> r[2], dmax |-> z[1], zmax |-> z[2], opts |-> z[3] ] :
        n \in (-1)..MaxCores, np \in {1}, k \in ArgK, r \in ArgPlain, z \in ArgZ }
    \cup
    { [ argc7 |-> TRUE, n |-> n, nprocs |-> np, k |-> k, x |-> TRUE, p0 |-> r[1], p0b |-> r[2],
        pmin |-> r[3], pmax |-> r[4], dmax |-> z[1], zmax |-> z[2], opts |-> z[3] ] :
        n \in (-1)..MaxCores, np \in {1}, k \in ArgK, r \in ArgX, z \in ArgZ }

Init ==
    /\ argv \in ArgSet
    /\ sup = SupStart
    /\ proc = [ c \in Children |-> "none" ]
    /\ pipe = NoPipe
    /\ wk = [ w \in 0..(MaxCores - 1) |-> NoWorker ]
    /\ nfail = 0
    /\ DispIdle
    /\ EnumIdle

\* main, lines 532-579: the arguments are parsed and validated
main_validate ==
    /\ sup.pc = "main"
    /\ LET r == main_args(argv)
       IN  sup' = IF r.exit # "none"
                  THEN [sup EXCEPT !.pc = "exited", !.exit = r.exit, !.err = r.err]
                  ELSE [sup EXCEPT !.pc = "validated", !.cores = r.cores, !.p0 = r.p0,
                                   !.pmin = r.pmin, !.pmax = r.pmax]
    /\ UNCHANGED <<argv, proc, pipe, wk, nfail, dispVars, enumVars>>

\* report_start's answer: the resume point start_pmin
ResumePoints(pmin, pmax) == { s \in pmin..pmax : s - pmin <= MaxResume }

\* line 593: if ( ! report_phase (PHASE_PRECOMPUTE) ) { report_end(); exit (0); }
checkpoint_stops_never(ok) == FALSE
checkpoint_stops(ok) == ~ok

\* main, lines 581-601: the start banner, report_start, precompute, the
\* PHASE_PRECOMPUTE checkpoint with report_phase's answer ok, and then the pipe;
\* sup.banner is what output_end wrote, sup.report_end whether report_end was called
main_precompute ==
    /\ sup.pc = "validated"
    /\ \E s \in ResumePoints(sup.pmin, sup.pmax), ok \in BOOLEAN :
          IF ~checkpoint_stops(ok)
          THEN /\ sup' = [sup EXCEPT !.pc = "fork", !.start = s, !.precomputed = TRUE, !.i = 0,
                                     !.ckpt = IF ok THEN "passed" ELSE "refused"]
               /\ pipe' = primes_create_pipe(s, sup.pmax, sup.cores)
          ELSE /\ sup' = [sup EXCEPT !.pc = "exited", !.start = s, !.precomputed = TRUE,
                                     !.ckpt = IF ok THEN "passed" ELSE "refused",
                                     !.report_end = TRUE, !.exit = "0"]
               /\ pipe' = pipe
    /\ UNCHANGED <<argv, proc, wk, nfail, dispVars, enumVars>>

\* line 607: the routine a worker runs
worker_path_primes(p0) == "process_primes"
worker_path(p0) == IF p0 > 1 THEN "process_subprimes" ELSE "process_primes"

\* kill (pids[j],SIGTERM) for the children in S
kill_none(pr, S) == pr
kill(pr, S) == [ c \in Children |-> IF c \in S /\ pr[c] = "running" THEN "z_term" ELSE pr[c] ]

\* main, lines 602-614: fork worker i; a failed fork kills the workers made so far
main_fork ==
    /\ sup.pc = "fork"
    /\ sup.i < sup.cores
    /\ \E ok \in BOOLEAN :
          IF ok
          THEN /\ proc' = [proc EXCEPT ![sup.i] = "running"]
               /\ wk' = [wk EXCEPT ![sup.i] = [ pc |-> "entry", path |-> worker_path(sup.p0), p |-> 0,
                                                 pmax |-> pipe.end, got |-> << >>, cov |-> {} ]]
               /\ sup' = [sup EXCEPT !.i = sup.i + 1]
          ELSE /\ proc' = kill(proc, 0..(sup.i - 1))
               /\ wk' = wk
               /\ sup' = [sup EXCEPT !.pc = "exited", !.exit = "-1", !.killed = TRUE]
    /\ UNCHANGED <<argv, pipe, nfail, dispVars, enumVars>>

\* main, lines 616-620: fork the feeder; the result of this fork is not checked
main_fork_feeder ==
    /\ sup.pc = "fork"
    /\ sup.i = sup.cores
    /\ \E ok \in BOOLEAN :
          proc' = IF ok THEN [proc EXCEPT ![sup.cores] = "running"] ELSE proc
    /\ sup' = [sup EXCEPT !.pc = "wait"]
    /\ UNCHANGED <<argv, pipe, wk, nfail, dispVars, enumVars>>

Zombie(st) == st \in {"z_ok", "z_fail", "z_term"}

\* what main does with a status that wait returned (lines 622-626)
status_bad_never(st) == FALSE
status_bad(st) == st # "z_ok"

\* main, lines 622-626: wait returns a child's status
main_wait ==
    /\ sup.pc = "wait"
    /\ \E c \in Children :
          /\ Zombie(proc[c])
          /\ IF status_bad(proc[c])
             THEN /\ proc' = kill([proc EXCEPT ![c] = "reaped_bad"], 0..sup.cores)
                  /\ sup' = [sup EXCEPT !.pc = "exited", !.exit = "-1", !.banner = "failure",
                                        !.reaped_fail = TRUE, !.killed = TRUE]
             ELSE /\ proc' = [proc EXCEPT ![c] = "reaped"]
                  /\ sup' = sup
    /\ UNCHANGED <<argv, pipe, wk, nfail, dispVars, enumVars>>

\* main, lines 622 and 628-640: wait finds no child left; the end banner and exit 0
main_end ==
    /\ sup.pc = "wait"
    /\ \A c \in Children : proc[c] \in {"none", "reaped", "reaped_bad"}
    /\ sup' = [sup EXCEPT !.pc = "exited", !.exit = "0", !.banner = "end", !.report_end = TRUE]
    /\ UNCHANGED <<argv, proc, pipe, wk, nfail, dispVars, enumVars>>


\* a worker's p = primes_read_pipe (pipe,jobid)
DoRead(w) ==
    /\ read_ready(pipe)
    /\ pipe' = read_pipe(pipe)

Running(c) == proc[c] = "running"

\* lines 604-607: the worker allocates its buffers and enters its routine
worker_entry(w) ==
    /\ Running(w) /\ wk[w].pc = "entry"
    /\ wk' = [wk EXCEPT ![w].pc = IF wk[w].path = "process_subprimes" THEN "sp_begin" ELSE "pp_begin"]
    /\ UNCHANGED <<argv, sup, proc, pipe, nfail, dispVars, enumVars>>

\* process_primes, lines 391-393: the first read; nothing to do when p > pmax
pp_begin(w) ==
    /\ Running(w) /\ wk[w].pc = "pp_begin"
    /\ DoRead(w)
    /\ LET v == read_value(pipe)
       IN  wk' = [wk EXCEPT ![w].p = v, ![w].got = Append(@, v),
                            ![w].pc = IF v > wk[w].pmax THEN "ret" ELSE "pp_cached"]
    /\ UNCHANGED <<argv, sup, proc, nfail, dispVars, enumVars>>

\* process_primes, lines 401-419: one round of the loop over the cached primes
pp_cached(w) ==
    /\ Running(w) /\ wk[w].pc = "pp_cached"
    /\ IF wk[w].p <= cpmax_of(argv.dmax) /\ wk[w].p <= wk[w].pmax
       THEN /\ DoRead(w)
            /\ LET v == read_value(pipe)
               IN  wk' = [wk EXCEPT ![w].p = v, ![w].got = Append(@, v), ![w].cov = @ \cup {wk[w].p}]
       ELSE /\ wk' = [wk EXCEPT ![w].pc = "pp_phase"]
            /\ pipe' = pipe
    /\ UNCHANGED <<argv, sup, proc, nfail, dispVars, enumVars>>

\* process_primes, lines 420-421: report_phase(PHASE_CACHED) may send the worker to done
pp_phase(w) ==
    /\ Running(w) /\ wk[w].pc = "pp_phase"
    /\ \E ok \in BOOLEAN :
          wk' = [wk EXCEPT ![w].pc = IF ~ok \/ wk[w].p > wk[w].pmax THEN "pp_done" ELSE "pp_later"]
    /\ UNCHANGED <<argv, sup, proc, pipe, nfail, dispVars, enumVars>>

\* process_primes, lines 430-518: one round of the loops of the five later phases,
\* each of which reads on while p <= pmax
pp_later(w) ==
    /\ Running(w) /\ wk[w].pc = "pp_later"
    /\ IF wk[w].p <= wk[w].pmax
       THEN /\ DoRead(w)
            /\ LET v == read_value(pipe)
               IN  wk' = [wk EXCEPT ![w].p = v, ![w].got = Append(@, v), ![w].cov = @ \cup {wk[w].p}]
       ELSE /\ wk' = [wk EXCEPT ![w].pc = "pp_done"]
            /\ pipe' = pipe
    /\ UNCHANGED <<argv, sup, proc, nfail, dispVars, enumVars>>

\* process_primes, lines 520-521: assert (p > pmax)
pp_done(w) ==
    /\ Running(w) /\ wk[w].pc = "pp_done"
    /\ IF wk[w].p > wk[w].pmax
       THEN wk' = [wk EXCEPT ![w].pc = "ret"] /\ proc' = proc
       ELSE wk' = [wk EXCEPT ![w].pc = "aborted"] /\ proc' = [proc EXCEPT ![w] = "z_fail"]
    /\ UNCHANGED <<argv, sup, pipe, nfail, dispVars, enumVars>>

\* process_subprimes, lines 329-346: the checks of p0, the first read, pmax--
sp_begin(w) ==
    /\ Running(w) /\ wk[w].pc = "sp_begin"
    /\ IF ~(wk[w].pmax <= sup.p0 /\ sup.p0 <= cpmax_of(argv.dmax))
       THEN /\ wk' = [wk EXCEPT ![w].pc = "aborted"]
            /\ proc' = [proc EXCEPT ![w] = "z_fail"]
            /\ pipe' = pipe
       ELSE IF \/ primes_next_prime(sup.p0 - 1) # sup.p0
               \/ (sup.p0 % 3 = 1 /\ ~has_cuberoots_modp(argv.k, sup.p0))
       THEN /\ wk' = [wk EXCEPT ![w].pc = "ret"]
            /\ proc' = proc
            /\ pipe' = pipe
       ELSE /\ DoRead(w)
            /\ LET v == read_value(pipe)
               IN  wk' = [wk EXCEPT ![w].p = v, ![w].got = Append(@, v), ![w].pc = "sp_loop",
                                    ![w].pmax = IF wk[w].pmax = sup.p0 THEN @ - 1 ELSE @]
            /\ proc' = proc
    /\ UNCHANGED <<argv, sup, nfail, dispVars, enumVars>>

\* process_subprimes, lines 347-363: one round of the loop over the primes q < p0
sp_loop(w) ==
    /\ Running(w) /\ wk[w].pc = "sp_loop"
    /\ IF wk[w].p <= wk[w].pmax /\ wk[w].p < sup.p0
       THEN /\ DoRead(w)
            /\ LET v == read_value(pipe)
               IN  wk' = [wk EXCEPT ![w].p = v, ![w].got = Append(@, v), ![w].cov = @ \cup {wk[w].p}]
       ELSE /\ wk' = [wk EXCEPT ![w].pc = "sp_p0"]
            /\ pipe' = pipe
    /\ UNCHANGED <<argv, sup, proc, nfail, dispVars, enumVars>>

\* process_subprimes, lines 366-380: p0 itself when it comes out of the pipe, and
\* assert (p > pmax)
sp_p0(w) ==
    /\ Running(w) /\ wk[w].pc = "sp_p0"
    /\ LET cov == IF wk[w].p = sup.p0 THEN wk[w].cov \cup {sup.p0} ELSE wk[w].cov
       IN  IF wk[w].p > wk[w].pmax
           THEN wk' = [wk EXCEPT ![w].pc = "ret", ![w].cov = cov] /\ proc' = proc
           ELSE wk' = [wk EXCEPT ![w].pc = "aborted", ![w].cov = cov] /\ proc' = [proc EXCEPT ![w] = "z_fail"]
    /\ UNCHANGED <<argv, sup, pipe, nfail, dispVars, enumVars>>

\* main, lines 608-611: the worker closes its end of the pipe and exits 0
worker_exit(w) ==
    /\ Running(w) /\ wk[w].pc = "ret"
    /\ wk' = [wk EXCEPT ![w].pc = "exited"]
    /\ pipe' = [pipe EXCEPT !.closed = @ \cup {w}]
    /\ proc' = [proc EXCEPT ![w] = "z_ok"]
    /\ UNCHANGED <<argv, sup, nfail, dispVars, enumVars>>

Feeder == sup.cores

\* main, line 617: while (primes_feed_pipe(pipe)); one prime goes into the ring
feeder_feed ==
    /\ sup.pc \in {"wait", "exited"} /\ Running(Feeder)
    /\ ~pipe.feedDone
    /\ IF feed_left(pipe)
       THEN feed_room(pipe) /\ pipe' = feed_pipe(pipe)
       ELSE pipe' = [pipe EXCEPT !.feedDone = TRUE]
    /\ UNCHANGED <<argv, sup, proc, wk, nfail, dispVars, enumVars>>

\* main, lines 618-619: primes_destroy_pipe waits for every worker's close, then _exit (0)
feeder_destroy ==
    /\ sup.pc \in {"wait", "exited"} /\ Running(Feeder)
    /\ pipe.feedDone
    /\ pipe.closed = Workers(sup.cores)
    /\ proc' = [proc EXCEPT ![Feeder] = "z_ok"]
    /\ UNCHANGED <<argv, sup, pipe, wk, nfail, dispVars, enumVars>>

\* a running child dies: an abort in code the model leaves out, or a signal
child_fail(c) ==
    /\ Running(c)
    /\ nfail < MaxFail
    /\ nfail' = nfail + 1
    /\ proc' = [proc EXCEPT ![c] = "z_fail"]
    /\ UNCHANGED <<argv, sup, pipe, wk, dispVars, enumVars>>

Next ==
    \/ main_validate
    \/ main_precompute
    \/ main_fork
    \/ main_fork_feeder
    \/ main_wait
    \/ main_end
    \/ feeder_feed
    \/ feeder_destroy
    \/ \E w \in 0..(MaxCores - 1) :
          \/ worker_entry(w)
          \/ pp_begin(w)
          \/ pp_cached(w)
          \/ pp_phase(w)
          \/ pp_later(w)
          \/ pp_done(w)
          \/ sp_begin(w)
          \/ sp_loop(w)
          \/ sp_p0(w)
          \/ worker_exit(w)
    \/ \E c \in Children : child_fail(c)

Spec == Init /\ [][Next]_vars

\* the steps of the supervisor, of the feeder and of worker w
SupStep ==
    main_validate \/ main_precompute \/ main_fork \/ main_fork_feeder \/ main_wait \/ main_end
FeederStep == feeder_feed \/ feeder_destroy
WorkerStep(w) ==
    \/ worker_entry(w) \/ pp_begin(w) \/ pp_cached(w) \/ pp_phase(w) \/ pp_later(w) \/ pp_done(w)
    \/ sp_begin(w) \/ sp_loop(w) \/ sp_p0(w) \/ worker_exit(w)

\* SpecFair: Spec with every process scheduled fairly: a process that can take a step
\* (is not blocked in a read, a feed, a wait or primes_destroy_pipe) takes one in the end.
\* Nothing makes a child fail.
SpecFair ==
    /\ Init /\ [][Next]_vars
    /\ WF_vars(SupStep)
    /\ WF_vars(FeederStep)
    /\ \A w \in 0..(MaxCores - 1) : WF_vars(WorkerStep(w))


----------------------------------------------------------------------------
(* SpecDisp: one dispatcher call on arguments the enumerator can offer: a is   *)
(* coprime to k, k has ca > 0 cube roots modulo a, and a*kdtab[ki].d <= dmax   *)
(* <= zmax.                                                                    *)

DispK == {3, 6, 12, 15}
DispZmax == {20, 40, 65, 125, 200, 700}

DispInit ==
    /\ pd_args \in { r \in [ k : DispK, zmax : DispZmax, ki : 0..3, a : 2..MaxA, ca : 1..9 ] :
                       /\ r.ki <= kdcnt(r.k)
                       /\ Gcd(r.a, r.k) = 1
                       /\ r.ca = Cardinality(CubeRootSet(r.k, r.a))
                       /\ r.a * kdtab_d(r.k, r.ki) <= r.zmax }
    /\ pd_call = NoCall
    /\ RunIdle
    /\ EnumIdle

DispProcd ==
    /\ pd_call.fn = "none"
    /\ pd_args.ki >= 1
    /\ \E accept \in BOOLEAN, onez \in onezChoices(pd_args.k) :
          pd_call' = procd(pd_args.k, pd_args.zmax, pd_args.ki, pd_args.a, pd_args.ca, accept, onez)
    /\ UNCHANGED <<pd_args, runVars, enumVars>>

DispProcdcoprime ==
    /\ pd_call.fn = "none"
    /\ pd_args.ki = 0
    /\ \E accept \in BOOLEAN, onez \in onezChoices(pd_args.k) :
          pd_call' = procdcoprime(pd_args.k, pd_args.zmax, pd_args.a, pd_args.ca, accept, onez)
    /\ UNCHANGED <<pd_args, runVars, enumVars>>

DispNext == DispProcd \/ DispProcdcoprime

SpecDisp == DispInit /\ [][DispNext]_vars

----------------------------------------------------------------------------
(* SpecEnum: one worker in process_primes, phase by phase.  Each action is one *)
(* round of a phase's loop (a prime is processed and the next one is read) or  *)
(* the step out of the loop; the enumerator runs to completion inside a round. *)
(* en.cur is the prime of the last round, en.log the dispatcher calls made for *)
(* it, en.skip whether report_p or report_c refused it, en.p the value read    *)
(* last, en.phases the ids passed to report_phase so far.  With en.p0 # 0 the  *)
(* worker is in process_subprimes instead, for the fixed largest prime en.p0.  *)
(* en.refused holds the ids for which report_phase answered false, and en.late *)
(* says whether a prime was processed after such an answer.                    *)

\* report.h: the phase ids, in the order of the phases
PHASE_CACHED == 1
PHASE_UNCACHED == 2
PHASE_COCACHED == 3
PHASE_NEARPRIME == 4
PHASE_PRIME == 5
PHASE_BIGPRIME == 6

\* lines 420, 436, 447, 467, 478, 518: the id each phase passes to report_phase
\* when its loop is over
phase_of_swapped(pc) ==
    CASE pc = "cached_end" -> PHASE_CACHED
      [] pc = "uncached"   -> PHASE_UNCACHED
      [] pc = "cocached"   -> PHASE_NEARPRIME
      [] pc = "nearprime"  -> PHASE_COCACHED
      [] pc = "prime"      -> PHASE_PRIME
      [] pc = "bigprime"   -> PHASE_BIGPRIME
phase_of(pc) ==
    CASE pc = "cached_end" -> PHASE_CACHED
      [] pc = "uncached"   -> PHASE_UNCACHED
      [] pc = "cocached"   -> PHASE_COCACHED
      [] pc = "nearprime"  -> PHASE_NEARPRIME
      [] pc = "prime"      -> PHASE_PRIME
      [] pc = "bigprime"   -> PHASE_BIGPRIME

\* lines 420 and 436, 447, 467, 478, 518: only the answer to PHASE_CACHED is
\* tested (if ( ! report_phase(PHASE_CACHED) ) goto done), the others are dropped
phase_stops_any(id, ok) == ~ok
phase_stops(id, ok) == id = PHASE_CACHED /\ ~ok

\* kdata.h kdmin: the smallest admissible divisor of k above 1, or 0
kdmin(k) == IF kdcnt(k) = 0 THEN 0 ELSE kdtab_d(k, 1)
\* precompute, lines 291-294
pdmin(c) ==
    LET m == IF kdmin(c.k) # 0 THEN Min(kdmin(c.k), cptab(c, 1)) ELSE cptab(c, 1)
        v == 1 + c.dmax \div m
    IN  IF v <= c.k THEN c.k + 1 ELSE v
bpmin_few(c) ==
    LET b == IF km(c.k, 0) % 2 = 1 THEN km(c.k, 1) ELSE km(c.k, 0)
        v == fastceilboundl(zmaxld(c.zmax), b * ZFEW)
    IN  IF v <= 7 THEN 11 ELSE v
bpmin(c) ==
    LET b == IF km(c.k, 0) % 2 = 1 THEN km(c.k, 1) ELSE km(c.k, 0)
        v == fastceilboundl(zmaxld(c.zmax), b * ZSHORT)
    IN  IF v <= 7 THEN 11 ELSE v

\* the runs of the model: k, dmax, zmax, cpmax, cdmax, sdmax, pipe->start, pipe->end
EnumCfgs ==
    { precompute(15, 154, 7000, 13, 13, 4, 2, 154),
      precompute(15, 154, 7000, 13, 1, 1, 2, 154),
      precompute(15, 154, 7000, 13, 8, 2, 7, 60),
      precompute(12, 154, 7000, 13, 13, 5, 2, 154),
      precompute(12, 154, 7000, 17, 5, 1, 2, 120),
      precompute(57, 154, 7000, 19, 13, 4, 2, 154),
      precompute(12, 154, 700, 13, 13, 5, 60, 154),
      precompute(15, 154, 6950, 13, 13, 4, 90, 154) }

\* primes_read_pipe as one worker of several sees it: the next prime of
\* [start,end] that no other worker took, or 2^64-1 when none is left
StreamAfter(c, p) == SortedSeq({ q \in (p + 1)..c.pmax : q >= c.start /\ IsPrime(q) })
ReadChoices(c, p) ==
    LET R == StreamAfter(c, p)
    IN  { R[i] : i \in 1..Min(Len(R), MaxGap + 1) }
        \cup (IF Len(R) <= MaxGap THEN {UINT64_MAX} ELSE {})

\* the runs of process_subprimes: the same, with pipe->end <= p0 <= cpmax
SubCfgs ==
    { [ cfg |-> precompute(15, 154, 7000, 13, 13, 4, 2, 11), p0 |-> 11 ],
      [ cfg |-> precompute(15, 154, 7000, 13, 1, 1, 2, 7), p0 |-> 11 ],
      [ cfg |-> precompute(15, 154, 7000, 13, 8, 2, 2, 7), p0 |-> 7 ],
      [ cfg |-> precompute(12, 154, 7000, 13, 5, 5, 2, 11), p0 |-> 11 ],
      [ cfg |-> precompute(57, 154, 7000, 19, 13, 4, 2, 11), p0 |-> 11 ],
      [ cfg |-> precompute(15, 154, 7000, 13, 13, 4, 2, 9), p0 |-> 9 ] }

EnumInit ==
    /\ en \in { [NoEnum EXCEPT !.cfg = c, !.pc = "begin"] : c \in EnumCfgs }
             \cup { [NoEnum EXCEPT !.cfg = x.cfg, !.p0 = x.p0, !.pc = "sub_begin"] : x \in SubCfgs }
    /\ RunIdle
    /\ DispIdle

\* report_phase is called for the phase that ends, and answers ok
Reported(ok) ==
    [en EXCEPT !.phases = Append(@, phase_of(en.pc)),
               !.refused = IF ok THEN @ ELSE @ \cup {phase_of(en.pc)}]

\* lines 421, 437, 448, 468, 479: on to the next phase, or to done
after_phase(ok, next) ==
    IF phase_stops(phase_of(en.pc), ok) \/ en.p > en.cfg.pmax THEN "done" ELSE next

\* a round of a loop: the calls made for en.p (none when report_p or report_c
\* refuses), and the read that ends the round
Round(calls, rp, rc, next) ==
    [en EXCEPT !.cur = en.p, !.skip = ~(rp /\ rc), !.log = IF rp /\ rc THEN calls ELSE << >>,
               !.p = next, !.late = en.late \/ en.refused # {}]

\* lines 407, 369: the largest power q of p with q <= dmax
RECURSIVE top_power(_, _, _)
top_power(q, p, dmax) == IF q * p <= dmax THEN top_power(q * p, p, dmax) ELSE q

\* lines 413-416: prockd and enumd for the powers pp < q of p, on the roots modulo q
\* reduced modulo pp
RECURSIVE cached_powers(_, _, _, _, _)
cached_powers(c, p, pp, q, z) ==
    IF pp < q
    THEN LET zz == [ i \in 1..Len(z) |-> z[i] % pp ]
         IN  prockd(c, pp, zz) \o enumd(c, pp, p, zz) \o cached_powers(c, p, pp * p, q, z)
    ELSE << >>

\* lines 407-417: the calls of the cached phase for a prime p of cptab
cached_calls(c, p) ==
    LET q == top_power(p, p, c.dmax)
        z == cuberoots_modq(c.k, q)
    IN  cached_powers(c, p, p, q, z) \o prockd(c, q, z) \o enumd(c, q, p, z)

\* lines 405, 368: while ( pi <= cpcnt && cptab[pi] < p ) pi++
RECURSIVE scan_pi(_, _, _)
scan_pi(c, pi, p) == IF pi <= cpcnt(c) /\ cptab(c, pi) < p THEN scan_pi(c, pi + 1, p) ELSE pi

\* process_primes, lines 391-402: the first read; nothing to do when p > pmax
phase_begin ==
    /\ en.pc = "begin"
    /\ \E v \in ReadChoices(en.cfg, en.cfg.start - 1) :
          en' = [en EXCEPT !.p = v,
                           !.pi = IF v <= en.cfg.pmax /\ v <= en.cfg.cpmax
                                  THEN pimaxp(en.cfg, en.cfg.start, 1) ELSE 0,
                           !.pc = IF v > en.cfg.pmax THEN "ret"
                                  ELSE IF v <= en.cfg.cpmax THEN "cached" ELSE "cached_end"]
    /\ UNCHANGED <<runVars, dispVars>>

\* process_primes, lines 403-418: a round of phase 1, for a prime p <= cpmax
phase_cached ==
    /\ en.pc = "cached"
    /\ IF en.p <= en.cfg.cpmax /\ en.p <= en.cfg.pmax
       THEN \E rp, rc \in BOOLEAN, v \in ReadChoices(en.cfg, en.p) :
               LET pi == IF rp THEN scan_pi(en.cfg, en.pi, en.p) ELSE en.pi
                   in == pi <= cpcnt(en.cfg) /\ cptab(en.cfg, pi) = en.p
               IN  en' = [ Round(IF in THEN cached_calls(en.cfg, en.p) ELSE << >>,
                                 rp, ~in \/ rc, v) EXCEPT !.pi = pi ]
       ELSE en' = [en EXCEPT !.pc = "cached_end"]
    /\ UNCHANGED <<runVars, dispVars>>

\* process_primes, lines 420-426: report_phase (PHASE_CACHED), whose answer can end
\* the routine, and the two assertions on the first prime above cpmax
phase_cached_end ==
    /\ en.pc = "cached_end"
    /\ \E ok \in BOOLEAN :
          en' = [ Reported(ok) EXCEPT
                    !.pc = IF after_phase(ok, "uncached") = "done" THEN "done"
                           ELSE IF en.p * en.p > en.cfg.dmax /\ 3 * en.p > en.cfg.k
                                THEN "uncached" ELSE "aborted" ]
    /\ UNCHANGED <<runVars, dispVars>>

\* lines 432-434, 443-445: the calls of the phases 2 and 3 for a prime p
uncached_calls(c, p) == LET z == cuberoots_modq(c.k, p) IN prockd(c, p, z) \o enumd(c, p, p, z)
cocached_calls(c, p) == LET z == cuberoots_modq(c.k, p) IN prockd(c, p, z) \o enumcd(c, p, p, z)

\* process_primes, lines 430-437: a round of phase 2, for cpmax < p < cdmin
phase_uncached ==
    /\ en.pc = "uncached"
    /\ IF en.p < cdmin(en.cfg) /\ en.p <= en.cfg.pmax
       THEN \E rp, rc \in BOOLEAN, v \in ReadChoices(en.cfg, en.p) :
               LET n == Len(cuberoots_modq(en.cfg.k, en.p))
               IN  en' = Round(IF n = 0 THEN << >> ELSE uncached_calls(en.cfg, en.p),
                               rp, n = 0 \/ rc, v)
       ELSE \E ok \in BOOLEAN :
               en' = [Reported(ok) EXCEPT !.pc = after_phase(ok, "cocached")]
    /\ UNCHANGED <<runVars, dispVars>>

\* process_primes, lines 441-448: a round of phase 3, for cdmin <= p < sdmin
phase_cocached ==
    /\ en.pc = "cocached"
    /\ IF en.p < sdmin(en.cfg) /\ en.p <= en.cfg.pmax
       THEN \E rp, rc \in BOOLEAN, v \in ReadChoices(en.cfg, en.p) :
               LET n == Len(cuberoots_modq(en.cfg.k, en.p))
               IN  en' = Round(IF n = 0 THEN << >> ELSE cocached_calls(en.cfg, en.p),
                               rp, n = 0 \/ rc, v)
       ELSE \E ok \in BOOLEAN :
               en' = [Reported(ok) EXCEPT !.pimax = Len(en.cfg.sdtab),
                                          !.pc = after_phase(ok, "nearprime")]
    /\ UNCHANGED <<runVars, dispVars>>

\* line 459: while ( pimax && p*sdtab[pimax].d > dmax ) pimax--
RECURSIVE sd_pimax(_, _, _)
sd_pimax(c, p, pimax) ==
    IF pimax > 0 /\ p * c.sdtab[pimax].d > c.dmax THEN sd_pimax(c, p, pimax - 1) ELSE pimax

\* lines 460-465: prockd for p times each entry of sdtab from pimax down
RECURSIVE sd_calls(_, _, _, _)
sd_calls(c, p, z, x) ==
    IF x = 0 THEN << >>
    ELSE prockd(c, p * c.sdtab[x].d, slift(p, z, c.sdtab[x].d, c.sdtab[x].roots))
         \o sd_calls(c, p, z, x - 1)

\* lines 456-465: the calls of phase 4 for a prime p
nearprime_calls(c, p, pimax) ==
    LET z == cuberoots_modq(c.k, p) IN prockd(c, p, z) \o sd_calls(c, p, z, pimax)

\* process_primes, lines 454-468: a round of phase 4, for sdmin <= p < pdmin
phase_nearprime ==
    /\ en.pc = "nearprime"
    /\ IF en.p < pdmin(en.cfg) /\ en.p <= en.cfg.pmax
       THEN \E rp, rc \in BOOLEAN, v \in ReadChoices(en.cfg, en.p) :
               LET n  == Len(cuberoots_modq(en.cfg.k, en.p))
                   go == rp /\ n # 0 /\ rc
                   px == IF go THEN sd_pimax(en.cfg, en.p, en.pimax) ELSE en.pimax
               IN  en' = [ Round(IF n = 0 THEN << >> ELSE nearprime_calls(en.cfg, en.p, px),
                                 rp, n = 0 \/ rc, v) EXCEPT !.pimax = px ]
       ELSE \E ok \in BOOLEAN :
               en' = [Reported(ok) EXCEPT !.pc = after_phase(ok, "prime")]
    /\ UNCHANGED <<runVars, dispVars>>

\* lines 483-487 and 495: the length l of the progressions of p, and the prime lpmax
\* up to which l stays the same
bigprime_mi(k) == km(k, 0) % 2
bigprime_l(c, p, m) == fastceilboundl(zmaxld(c.zmax), p * m)
bigprime_lpmax_never(c, l, m) == c.pmax
bigprime_lpmax(c, l, m) ==
    IF (l - 1) * m * c.pmax > c.zmax THEN fastceilboundl(zmaxld(c.zmax), m * (l - 1)) ELSE c.pmax

\* process_primes, lines 472-487 and 499-502: a round of phase 5, for pdmin <= p < bpmin;
\* on the way out, the lengths phase 6 starts from
phase_prime ==
    /\ en.pc = "prime"
    /\ IF en.p < bpmin(en.cfg) /\ en.p <= en.cfg.pmax
       THEN \E rp, rc \in BOOLEAN, v \in ReadChoices(en.cfg, en.p) :
               LET z == cuberoots_modq(en.cfg.k, en.p)
               IN  en' = Round(IF z = << >> THEN << >>
                               ELSE << [ fn |-> "procdcoprime", ki |-> 0, a |-> en.p, zd |-> z ] >>,
                               rp, z = << >> \/ rc, v)
       ELSE \E ok \in BOOLEAN :
            IF after_phase(ok, "bigprime") = "done"
            THEN en' = [Reported(ok) EXCEPT !.pc = "done"]
            ELSE LET mi == bigprime_mi(en.cfg.k)
                     l  == bigprime_l(en.cfg, en.p, km(en.cfg.k, mi))
                 IN  en' = [Reported(ok) EXCEPT !.pc = "bigprime",
                                      !.l = l,
                                      !.lpmax = bigprime_lpmax(en.cfg, l, km(en.cfg.k, mi)),
                                      !.l7 = IF mod7sq4(en.cfg.k)
                                             THEN bigprime_l(en.cfg, en.p, km(en.cfg.k, mi + 2)) ELSE 0,
                                      !.lpmax7 = IF mod7sq4(en.cfg.k)
                                                 THEN bigprime_lpmax(en.cfg, l, km(en.cfg.k, mi + 2))
                                                 ELSE 0]
    /\ UNCHANGED <<runVars, dispVars>>

\* process_primes, lines 489-518: a round of phase 6, for p >= bpmin; onez is
\* onezmod7 (p,si), which can hold only when k = +/-2 mod 7
phase_bigprime ==
    /\ en.pc = "bigprime"
    /\ IF en.p <= en.cfg.pmax
       THEN \E rp, rc \in BOOLEAN, v \in ReadChoices(en.cfg, en.p), onez \in onezChoices(en.cfg.k) :
               LET z    == cuberoots_modq(en.cfg.k, en.p)
                   go   == rp /\ z # << >> /\ rc
                   mi   == bigprime_mi(en.cfg.k)
                   m    == km(en.cfg.k, mi)
                   m7   == km(en.cfg.k, mi + 2)
                   new  == go /\ ~onez /\ en.p > en.lpmax
                   new7 == go /\ onez /\ en.p > en.lpmax7
                   l    == IF new THEN bigprime_l(en.cfg, en.p, m) ELSE en.l
                   l7   == IF new7 THEN bigprime_l(en.cfg, en.p, m7) ELSE en.l7
               IN  en' = [ Round(IF z = << >> THEN << >>
                                 ELSE << [ fn |-> "procdbigprime", ki |-> 0, a |-> en.p, zd |-> z,
                                           mi |-> IF onez THEN mi + 2 ELSE mi,
                                           l |-> IF onez THEN l7 ELSE l ] >>,
                                 rp, z = << >> \/ rc, v)
                           EXCEPT !.l = l, !.l7 = l7,
                                  !.lpmax = IF new THEN bigprime_lpmax(en.cfg, l, m) ELSE en.lpmax,
                                  !.lpmax7 = IF new7 THEN bigprime_lpmax(en.cfg, en.l, m7)
                                             ELSE en.lpmax7 ]
       ELSE \E ok \in BOOLEAN : en' = [Reported(ok) EXCEPT !.pc = "done"]
    /\ UNCHANGED <<runVars, dispVars>>

\* process_primes, lines 520-521: assert (p > pmax)
phase_done ==
    /\ en.pc = "done"
    /\ en' = [en EXCEPT !.pc = IF en.p > en.cfg.pmax THEN "ret" ELSE "aborted"]
    /\ UNCHANGED <<runVars, dispVars>>

\* line 346: if ( pmax == p0 ) pmax--
sub_pmax(c, p0) == IF c.pmax = p0 THEN c.pmax - 1 ELSE c.pmax

\* lines 354-358: prockd and enumd for pp*p0, for the powers pp < q of p
RECURSIVE sub_powers(_, _, _, _, _, _, _)
sub_powers(c, p, p0, pp, q, z, z0) ==
    IF pp < q
    THEN LET zz == [ i \in 1..Len(z) |-> z[i] % pp ]
             r  == slift(pp, zz, p0, z0)
         IN  prockd(c, pp * p0, r) \o enumd(c, pp * p0, p, r)
             \o sub_powers(c, p, p0, pp * p, q, z, z0)
    ELSE << >>

\* lines 351-362: the calls of process_subprimes for a prime p < p0 of cptab
sub_calls(c, p, p0) ==
    LET q  == top_power(p, p, c.dmax \div p0)
        z  == cuberoots_modq(c.k, q)
        z0 == cuberoots_modq(c.k, p0)
        r  == slift(q, z, p0, z0)
    IN  sub_powers(c, p, p0, p, q, z, z0) \o prockd(c, q * p0, r) \o enumd(c, q * p0, p, r)

\* lines 373-376: prockd for the powers pp < q of p0, and enumd for those above p0
RECURSIVE p0_powers(_, _, _, _, _)
p0_powers(c, p, pp, q, z) ==
    IF pp < q
    THEN LET zz == [ i \in 1..Len(z) |-> z[i] % pp ]
         IN  prockd(c, pp, zz) \o (IF pp > p THEN enumd(c, pp, p, zz) ELSE << >>)
             \o p0_powers(c, p, pp * p, q, z)
    ELSE << >>

\* lines 369-377: the calls of process_subprimes for p0 itself
p0_calls(c, p) ==
    LET q == top_power(p, p, c.dmax)
        z == cuberoots_modq(c.k, q)
    IN  p0_powers(c, p, p, q, z) \o prockd(c, q, z)
        \o (IF q > p THEN enumd(c, q, p, z) ELSE << >>)

\* process_subprimes, lines 329-346: the assertions on p0, the two ways out with
\* nothing to do, and the first read
sub_begin ==
    /\ en.pc = "sub_begin"
    /\ LET c == en.cfg
           p0 == en.p0
       IN  IF ~(c.pmax <= p0 /\ p0 <= c.cpmax)
           THEN en' = [en EXCEPT !.pc = "aborted"]
           ELSE IF primes_next_prime(p0 - 1) # p0
                   \/ (p0 > 1 /\ p0 % 3 = 1 /\ ~has_cuberoots_modp(c.k, p0))
                THEN en' = [en EXCEPT !.pc = "ret"]
                ELSE IF cptab(c, pimaxp(c, p0, 1)) # p0
                     THEN en' = [en EXCEPT !.pc = "aborted"]
                     ELSE \E v \in ReadChoices(c, c.start - 1) :
                             en' = [en EXCEPT !.p = v, !.pc = "sub_loop",
                                              !.pi = pimaxp([c EXCEPT !.dmax = c.dmax \div p0], v, 1)]
    /\ UNCHANGED <<runVars, dispVars>>

\* process_subprimes, lines 347-363: a round for a prime p < p0; report_p's answer
\* is not used
sub_loop ==
    /\ en.pc = "sub_loop"
    /\ IF en.p <= sub_pmax(en.cfg, en.p0) /\ en.p < en.p0
       THEN \E v \in ReadChoices(en.cfg, en.p) :
               LET pi == scan_pi(en.cfg, en.pi, en.p)
                   in == pi <= cpcnt(en.cfg) /\ cptab(en.cfg, pi) = en.p
               IN  en' = [ Round(IF in THEN sub_calls(en.cfg, en.p, en.p0) ELSE << >>,
                                 TRUE, TRUE, v) EXCEPT !.pi = pi ]
       ELSE en' = [en EXCEPT !.pc = IF en.p = en.p0 THEN "sub_p0" ELSE "sub_end"]
    /\ UNCHANGED <<runVars, dispVars>>

\* process_subprimes, lines 366-378: p0 came out of the pipe
sub_p0 ==
    /\ en.pc = "sub_p0"
    /\ en' = [ Round(p0_calls(en.cfg, en.p), TRUE, TRUE, en.p)
               EXCEPT !.pi = scan_pi(en.cfg, en.pi, en.p), !.pc = "sub_end" ]
    /\ UNCHANGED <<runVars, dispVars>>

\* process_subprimes, line 380: assert (p > pmax)
sub_end ==
    /\ en.pc = "sub_end"
    /\ en' = [en EXCEPT !.pc = IF en.p > sub_pmax(en.cfg, en.p0) THEN "ret" ELSE "aborted"]
    /\ UNCHANGED <<runVars, dispVars>>

EnumNext ==
    \/ sub_begin
    \/ sub_loop
    \/ sub_p0
    \/ sub_end
    \/ phase_begin
    \/ phase_cached
    \/ phase_cached_end
    \/ phase_uncached
    \/ phase_cocached
    \/ phase_nearprime
    \/ phase_prime
    \/ phase_bigprime
    \/ phase_done

SpecEnum == EnumInit /\ [][EnumNext]_vars

----------------------------------------------------------------------------
(* Claims about the dispatcher, checked under SpecDisp *)

\* the ceiling of x/y for x, y > 0, stated without fastceilboundl
CeilOf(x, y) == CHOOSE n \in 1..x : n * y >= x /\ (n - 1) * y < x
\* the progression length of the call under way, from the fudged bound
DispLen == CeilOf(zmaxld(pd_args.zmax), pd_args.a * pd_call.b)
DispAccepted == pd_call.fn # "none" /\ pd_call.accepted

\* C3: in procd and procdcoprime, whenever report_d accepts the modulus and
\* a*b > zmax, exactly zrcheckone is called (never zrcheckafew or zrchecklift), and
\* the fudged length n = ceil(zmaxld/(a*b)) satisfies n <= ZSHORT or n*ca <= ZFEW.
C3_BeyondZmaxCallsOne ==
    (DispAccepted /\ pd_args.a * pd_call.b > pd_args.zmax) =>
        /\ Len(pd_call.zr) = 1
        /\ pd_call.zr[1].fn = "zrcheckone"
        /\ (DispLen <= ZSHORT \/ DispLen * pd_args.ca <= ZFEW)

\* C3's case: a*b > zmax but a*b < zmaxld, so that the fudged length is 2, and the
\* call went to zrcheckone
C3_Witness ==
    /\ DispAccepted
    /\ pd_args.a * pd_call.b > pd_args.zmax
    /\ pd_call.n = 2
    /\ pd_call.zr[1].fn = "zrcheckone"

\* C4: in procd and procdcoprime, when a*b <= zmax the dispatcher calls
\* zrcheckafew exactly when l <= ZSHORT or l*ca <= ZFEW, with the length
\* l = ceil(zmaxld/(a*b)), and zrchecklift in every other case; exactly one checker
\* is called per accepted d and none when report_d returns false.
C4_AfewOrLift ==
    (pd_call.fn # "none") =>
        /\ (~pd_call.accepted => pd_call.zr = << >>)
        /\ (pd_call.accepted => Len(pd_call.zr) = 1)
        /\ (pd_call.accepted /\ pd_args.a * pd_call.b <= pd_args.zmax) =>
              IF DispLen <= ZSHORT \/ DispLen * pd_args.ca <= ZFEW
              THEN pd_call.zr[1].fn = "zrcheckafew" /\ pd_call.zr[1].n = DispLen
              ELSE pd_call.zr[1].fn = "zrchecklift"

\* C4's case: a long progression with few roots (l > ZSHORT, l*ca <= ZFEW) within
\* zmax went to zrcheckafew
C4_Witness ==
    /\ DispAccepted
    /\ pd_args.a * pd_call.b <= pd_args.zmax
    /\ DispLen > ZSHORT
    /\ pd_call.zr[1].fn = "zrcheckafew"

\* both branches of C4 are taken: some call within zmax went to zrchecklift
DispLiftReached ==
    DispAccepted /\ pd_call.zr[1].fn = "zrchecklift"

----------------------------------------------------------------------------
(* Claims about the supervisor, the pipe and the workers, checked under Spec   *)

WorkerSet == 0..(MaxCores - 1)
Forked(w) == wk[w].pc # "none"
Sentinel(w) == UINT64_MAX \in SeqSet(wk[w].got)
GotPrimes(w) == SeqSet(wk[w].got) \ {UINT64_MAX}
PipePrimes == SeqSet(PrimesIn(pipe.start, pipe.end))
AllGot == UNION { GotPrimes(w) : w \in WorkerSet }
AllCov == UNION { wk[w].cov : w \in WorkerSet }
NothingStarted == ~sup.precomputed /\ ~pipe.created /\ \A c \in Children : proc[c] = "none"

ChildFailed == nfail > 0 \/ \E w \in WorkerSet : wk[w].pc = "aborted"

\* C7: when wait returns the status of a child that exited non-zero or
\* abnormally, the supervisor has sent SIGTERM to every child (none is left
\* running), has written the failure end banner and exits -1; once the supervisor
\* has exited no child is running; and the supervisor exits 0 only when no child
\* failed and every child it created has been reaped with status 0.
C7_SupervisorFailure ==
    /\ sup.reaped_fail =>
          /\ sup.pc = "exited" /\ sup.exit = "-1" /\ sup.banner = "failure"
          /\ \A c \in Children : ~Running(c)
    /\ (\E c \in Children : proc[c] = "reaped_bad") => sup.reaped_fail
    /\ sup.pc = "exited" => \A c \in Children : ~Running(c)
    /\ (sup.pc = "exited" /\ ChildFailed) => sup.exit = "-1"
    /\ sup.exit = "0" =>
          /\ ~ChildFailed
          /\ \A c \in Children : proc[c] \in {"none", "reaped"}

\* C7's case: one child failed, wait returned its status, and a sibling that was
\* still running has been terminated
C7_Witness ==
    /\ sup.reaped_fail
    /\ \E c \in Children : proc[c] = "reaped_bad"
    /\ \E c \in Children : proc[c] = "z_term"

\* C7's other case: two workers and the feeder all exited 0, and then the supervisor
C7_AllExitedOk ==
    /\ sup.exit = "0" /\ sup.cores = 2
    /\ \A c \in 0..sup.cores : proc[c] = "reaped"

\* the four preconditions of the validation, on the values main derives from argv
ArgP0 == main_p0(argv, main_cores(argv))
ArgPmin == main_pmin(argv, main_cores(argv))
PreconditionViolated ==
    \/ ~le_sqrt(ArgP0, argv.dmax)
    \/ ArgPmin > argv.pmax
    \/ ArgP0 * argv.pmax > argv.dmax
    \/ argv.dmax > argv.zmax

C9_Args ==
    /\ argv.argc7 /\ ~argv.x
    /\ argv.pmin = argv.pmax /\ IsPrime(argv.pmin) /\ le_sqrt(argv.pmin, argv.dmax)

\* C9 (as amended): when the arguments give pmin = pmax = p0 with p0 prime and
\* p0 <= sqrt(dmax), the workers run process_subprimes with the largest prime
\* pinned to p0 (and the pipe running over the primes of [2,p0]) exactly when there
\* is more than one worker; with one worker p0 stays 1 and the worker runs
\* process_primes over [p0,p0]; and when p0 is pinned and divides k, main exits -1.
C9_SubprimesPath ==
    C9_Args =>
        /\ \A w \in WorkerSet : Forked(w) =>
              IF sup.cores > 1
              THEN /\ wk[w].path = "process_subprimes"
                   /\ sup.p0 = argv.pmin /\ sup.pmin = 2 /\ pipe.end = argv.pmin
              ELSE /\ wk[w].path = "process_primes"
                   /\ sup.p0 = 1 /\ sup.pmin = argv.pmin /\ pipe.end = argv.pmin
        /\ (sup.pc # "main" /\ argv.n >= 0 /\ main_cores(argv) > 1 /\ argv.k % argv.pmin = 0) =>
              sup.exit = "-1" /\ NothingStarted

\* C9's case: two workers, pmin = pmax = 5, and a worker has finished
\* process_subprimes having covered p0 itself
C9_Witness ==
    /\ C9_Args /\ sup.cores = 2
    /\ \E w \in WorkerSet :
          wk[w].pc = "exited" /\ wk[w].path = "process_subprimes" /\ sup.p0 \in wk[w].cov

\* C9 as stated: with pmin = pmax = p0, p0 prime and p0 <= sqrt(dmax), every
\* worker runs process_subprimes, for every worker count
C9_EveryWorkerCount ==
    C9_Args => \A w \in WorkerSet : Forked(w) => wk[w].path = "process_subprimes"

\* C10 (as amended): for arguments pmin = P0xQ, pmax = P0xQ' with Q' <= P0 that
\* pass the validation, p0 = P0, every worker runs process_subprimes on the pipe
\* of the primes of [start,Q'], and once all workers have returned normally from a
\* prime p0 with cube roots of k, the primes q they covered are exactly those of
\* the pipe; with Q' > P0 (as in 5x7 .. 5x11) main reports an error and exits -1.
C10_XForm ==
    (argv.argc7 /\ argv.n >= 0 /\ argv.x /\ sup.pc # "main") =>
        /\ argv.pmax > argv.p0 => sup.pc = "exited" /\ sup.exit = "-1" /\ NothingStarted
        /\ \A w \in WorkerSet : Forked(w) =>
              /\ wk[w].path = "process_subprimes"
              /\ sup.p0 = argv.p0 /\ pipe.end = argv.pmax /\ argv.pmax <= argv.p0
              /\ pipe.start >= argv.pmin
              /\ wk[w].cov \subseteq GotPrimes(w)
        /\ ( /\ sup.pc = "exited" /\ sup.exit = "0" /\ sup.cores > 0 /\ proc[0] = "reaped"
             /\ IsPrime(sup.p0) /\ has_cuberoots_modp(argv.k, sup.p0) ) =>
              AllCov = PipePrimes

\* C10's case: k = 3, pmin = 5x2, pmax = 5x5, two workers, a complete run: the
\* primes 2, 3 and 5 have been covered, and not all by one worker
C10_Witness ==
    /\ argv.x /\ argv.k = 3 /\ sup.p0 = 5 /\ sup.cores = 2
    /\ sup.pc = "exited" /\ sup.exit = "0"
    /\ AllCov = {2, 3, 5}
    /\ \A w \in Workers(sup.cores) : wk[w].cov # {}

\* C10 as stated: k = 3, pmin = 5x7, pmax = 5x11 passes the validation with p0 = 5
C10_Concrete ==
    ( /\ argv.argc7 /\ argv.n >= 1 /\ argv.x /\ argv.k = 3
      /\ argv.p0 = 5 /\ argv.p0b = 5 /\ argv.pmin = 7 /\ argv.pmax = 11
      /\ argv.dmax = 60 /\ argv.zmax = 300
      /\ sup.pc # "main" ) =>
        sup.err = "none" /\ sup.p0 = 5

----------------------------------------------------------------------------
(* Claims about the enumerator and the phases, checked under SpecEnum *)

\* the calls of the last round, and what each is for
EnumLog == { en.log[i] : i \in 1..Len(en.log) }
CallsFor(a, ki) == Cardinality({ i \in 1..Len(en.log) : en.log[i].a = a /\ en.log[i].ki = ki })

\* the pairs (d, ki) that belong to the prime p: d admissible, at most dmax, with
\* largest prime divisor p, and ki = 0 or a class of kdtab with d*kdtab[ki].d <= dmax
Due(c, p) ==
    { x \in { a \in p..c.dmax : a % p = 0 /\ Admissible(c.k, a) /\ LargestPrime(a) = p }
            \X (0..kdcnt(c.k)) :
        x[2] = 0 \/ x[1] * kdtab_d(c.k, x[2]) <= c.dmax }

\* the calls of the last round are exactly the pairs due for its prime, once each
RoundExact ==
    /\ \A x \in Due(en.cfg, en.cur) : CallsFor(x[1], x[2]) = 1
    /\ \A x \in EnumLog : /\ <<x.a, x.ki>> \in Due(en.cfg, en.cur)
                          /\ (x.fn = "procd") = (x.ki # 0)

\* C1 (as amended): in process_primes, a worker takes the primes in ascending
\* order, and for every prime p that report_p and report_c accept, every admissible
\* d <= dmax with largest prime divisor p and every k-divisor class ki with
\* d*kdtab[ki].d <= dmax gets exactly one call of procdcoprime, procd or
\* procdbigprime, and no other call is made; a worker that returns has read the
\* end of the pipe.
C1_ExactlyOncePerAcceptedPrime ==
    en.p0 = 0 =>
        /\ en.cur # 0 => en.cur < en.p
        /\ (en.cur # 0 /\ ~en.skip) => RoundExact
        /\ en.pc = "ret" => en.p > en.cfg.pmax

\* a round of phase 1 that crossed a batch boundary and recursed: 11, 22, 44,
\* 88, 77 and 154 with their classes
C1_Witness ==
    /\ en.p0 = 0 /\ en.cur = 11 /\ ~en.skip
    /\ CallsFor(154, 0) = 1 /\ CallsFor(22, 2) = 1
    /\ Cardinality(Due(en.cfg, en.cur)) > 2 * IBATCH

\* C1 as stated: the same for every prime of a round, accepted or not
C1_ExactlyOnceEveryPrime == (en.p0 = 0 /\ en.cur # 0) => RoundExact

\* C2: every call made from process_primes or process_subprimes passes roots below
\* d that cube to k modulo d, pairwise distinct, and as many as k has cube roots
\* modulo d.
C2_RootsExact ==
    \A x \in EnumLog :
        /\ \A i \in 1..Len(x.zd) : x.zd[i] < x.a /\ (x.zd[i] * x.zd[i] * x.zd[i]) % x.a = en.cfg.k % x.a
        /\ \A i, j \in 1..Len(x.zd) : i # j => x.zd[i] # x.zd[j]
        /\ Len(x.zd) = Cardinality(CubeRootSet(en.cfg.k, x.a))

\* the nine roots of 57 modulo 91, lifted from three modulo 13 and three modulo 7
C2_Witness == \E x \in EnumLog : en.p0 = 0 /\ en.cur = 13 /\ x.a = 91 /\ Len(x.zd) = 9

\* C6: the ids a worker passes to report_phase are strictly increasing and follow
\* the order PHASE_CACHED, PHASE_UNCACHED, PHASE_COCACHED, PHASE_NEARPRIME,
\* PHASE_PRIME, PHASE_BIGPRIME.
C6_MonotonePhases ==
    /\ \A i \in 1..Len(en.phases) : en.phases[i] \in PHASE_CACHED..PHASE_BIGPRIME
    /\ \A i, j \in 1..Len(en.phases) : i < j => en.phases[i] < en.phases[j]
    /\ PHASE_CACHED < PHASE_UNCACHED /\ PHASE_UNCACHED < PHASE_COCACHED
    /\ PHASE_COCACHED < PHASE_NEARPRIME /\ PHASE_NEARPRIME < PHASE_PRIME
    /\ PHASE_PRIME < PHASE_BIGPRIME

\* a worker that went through all six phases, with rounds refused on the way
C6_Witness ==
    /\ en.phases = << PHASE_CACHED, PHASE_UNCACHED, PHASE_COCACHED, PHASE_NEARPRIME,
                      PHASE_PRIME, PHASE_BIGPRIME >>
    /\ en.pc = "done"

----------------------------------------------------------------------------
(* Further claims about the supervisor and the workers, checked under Spec *)

\* the command line is complete and n >= 0, and main is past the validation
Validated == argv.argc7 /\ argv.n >= 0 /\ sup.pc # "main"

\* the p0 of the command line divides k
P0DividesK == ArgP0 > 1 /\ argv.k % ArgP0 = 0

\* C11 (as amended): of the three requirements on a pinned p0 only "p0 does not
\* divide k" is enforced by main: a p0 > 1 that divides k ends the run with exit
\* -1 and nothing started.  A p0 that is not prime, or is 1 mod 3 without a cube
\* root of k, only draws a warning: if the rest of the validation passes the
\* workers are forked, and each leaves process_subprimes without reading a prime
\* and without processing any d.
C11_PinnedP0 ==
    /\ (Validated /\ P0DividesK) =>
          sup.pc = "exited" /\ sup.exit = "-1" /\ NothingStarted
    /\ sup.err = "p0 divides k" => P0DividesK
    /\ \A w \in WorkerSet : (Forked(w) /\ p0_warned(argv.k, sup.p0)) =>
          /\ wk[w].path = "process_subprimes"
          /\ wk[w].got = << >> /\ wk[w].cov = {}
          /\ wk[w].pc \in {"entry", "sp_begin", "ret", "exited"}

\* C11's case: k = 3 and p0 = 7 = 1 mod 3 without a cube root of 3: the run passed
\* the validation and a worker came and went with nothing to do
C11_Witness ==
    /\ argv.k = 3 /\ sup.p0 = 7 /\ p0_warned(argv.k, sup.p0)
    /\ \E w \in WorkerSet : wk[w].pc = "exited" /\ wk[w].got = << >>

\* C11 as stated: a p0 that violates any of the three requirements is rejected
\* and no worker is started
C11_AnyViolationRejected ==
    (Validated /\ ArgP0 > 1 /\ (p0_warned(argv.k, ArgP0) \/ P0DividesK)) =>
        sup.pc = "exited" /\ sup.exit = "-1" /\ NothingStarted

----------------------------------------------------------------------------
(* Further claims about process_primes, checked under SpecEnum *)

C15_DoneAbovePmax == (en.p0 = 0 /\ en.pc = "done") => en.p > en.cfg.pmax

\* the calls of procdbigprime of the last round
BigPrimeCalls == { x \in EnumLog : x.fn = "procdbigprime" }

\* C16: every d passed to procdbigprime is the prime just read from the pipe, with
\* d >= pdmin and d >= bpmin, and with the modulus b = km[mi] passed with it
\* zmax/(d*b) < ZSHORT, the length passed being between 1 and ZSHORT; whatever the
\* order of the thresholds.
C16_BigPrimeArgs ==
    \A x \in BigPrimeCalls :
        /\ en.p0 = 0 /\ x.a = en.cur /\ IsPrime(x.a) /\ Len(x.zd) > 0
        /\ x.a >= pdmin(en.cfg) /\ x.a >= bpmin(en.cfg)
        /\ en.cfg.zmax < ZSHORT * x.a * km(en.cfg.k, x.mi)
        /\ 1 <= x.l /\ x.l <= ZSHORT

\* C16's case: a run with bpmin < cdmin < pdmin, where phase 5 has no prime and
\* procdbigprime is called for a prime of the one-z-mod-7 track
C16_Witness ==
    /\ bpmin(en.cfg) < cdmin(en.cfg) /\ cdmin(en.cfg) < pdmin(en.cfg)
    /\ \E x \in BigPrimeCalls : x.mi = bigprime_mi(en.cfg.k) + 2

\* the length ceil(zmaxld/(p*b)) of the progressions of the call x
ExactLength(x) == bigprime_l(en.cfg, x.a, km(en.cfg.k, x.mi))

\* the bound up to which the length of the call x stays cached
CachedUpTo(x) == IF x.mi = bigprime_mi(en.cfg.k) THEN en.lpmax ELSE en.lpmax7

\* C18: the length l passed to procdbigprime with the prime p and the modulus b is
\* ceil(zmaxld/(p*b)), or one more than that when p is the bound lpmax (lpmax7) up to
\* which the length is kept; l*p*b > zmax, and l = 1 only when p*b > zmax.
C18_LengthCovers ==
    \A x \in BigPrimeCalls :
        /\ x.l \in { ExactLength(x), ExactLength(x) + 1 }
        /\ x.l # ExactLength(x) => x.a = CachedUpTo(x)
        /\ x.l * x.a * km(en.cfg.k, x.mi) > en.cfg.zmax
        /\ x.l = 1 => x.a * km(en.cfg.k, x.mi) > en.cfg.zmax

\* C18's case: a prime equal to lpmax is passed with the length kept from a smaller prime
C18_Witness ==
    \E x \in BigPrimeCalls : x.a = en.lpmax /\ x.l = ExactLength(x) + 1 /\ x.l > 2

\* C18 as stated: the length passed to procdbigprime equals ceil(zmaxld/(p*b)) for the
\* modulus b passed with it, l*p*b > zmax, and l = 1 only when p*b > zmax.
C18_LengthExact ==
    \A x \in BigPrimeCalls :
        /\ x.l = ExactLength(x)
        /\ x.l * x.a * km(en.cfg.k, x.mi) > en.cfg.zmax
        /\ x.l = 1 => x.a * km(en.cfg.k, x.mi) > en.cfg.zmax

\* the moduli handed to prockd in the last round
ProckdModuli == { x.a : x \in { y \in EnumLog : y.fn = "procdcoprime" /\ y.ki = 0 } }

\* C17: every modulus handed to prockd, by enumd for a queued prime power, by enumcd
\* for a cofactor, by process_primes and by process_subprimes, is at most dmax, so that
\* the product a*d that forms it fits the machine word.
C17_ModuliWithinDmax ==
    /\ en.cfg.dmax <= DMAX /\ DMAX <= UINT64_MAX
    /\ \A x \in EnumLog : 1 <= x.a /\ x.a <= en.cfg.dmax /\ x.a % en.cur = 0

\* C17's case: a modulus equal to dmax, built at the second level of the recursion
\* (prime read, times a prime power, times a prime power or a cofactor)
C17_Witness ==
    /\ en.cfg.dmax \in ProckdModuli
    /\ \E q \in ProckdModuli : en.cur < q /\ q < en.cfg.dmax /\ en.cfg.dmax % q = 0

----------------------------------------------------------------------------
(* Termination of a run, checked under SpecFair                                *)

\* a child died, was killed, or could not be forked
AnyChildFailed ==
    \/ nfail > 0 \/ sup.killed
    \/ \E c \in Children : proc[c] \in {"z_fail", "z_term", "reaped_bad"}
    \/ sup.pc = "wait" /\ proc[Feeder] = "none"

\* C19: under fair scheduling a run in which no child fails terminates: the workers
\* return, close the pipe and exit 0, the feeder stops feeding and primes_destroy_pipe
\* returns, and the supervisor's wait loop ends; nothing blocks forever, also when a
\* worker returns without reading its share.
C19_Terminates == <>(sup.pc = "exited" \/ AnyChildFailed)

\* the state C19 says cannot last: every worker has returned and exited 0, no child
\* has failed, and the feeder is blocked in primes_feed_pipe on a full ring that
\* nobody reads any more, so that the supervisor's wait never returns for it
C19_FeederBlocked ==
    /\ sup.pc = "wait" /\ ~AnyChildFailed
    /\ \A w \in Workers(sup.cores) : proc[w] = "reaped" /\ wk[w].got = << >>
    /\ Running(Feeder) /\ feed_left(pipe) /\ ~feed_room(pipe)
    /\ ~ENABLED SupStep /\ ~ENABLED FeederStep

====
